---- MODULE Spec2Model ----
(***************************************************************************)
(* List-of-lists n-dimensional matrix storage (ext/nmatrix/storage/list.cpp)*)
(* modelled over an explicit heap: every LIST, NODE, scalar, shape buffer  *)
(* and LIST_STORAGE record is a heap block named by its address.           *)
(***************************************************************************)
EXTENDS Integers, Sequences, FiniteSets, TLC

\* ------------------------------------------------------------------ bounds

\* Largest extent of one dimension.
MaxExtent == 2
\* Largest number of cells (product of the extents) of a single storage.
MaxCells == 4
\* Largest number of cells of the two storages compared with each other.
MaxEqCells == 2
\* Largest number of cells of a storage that is copied.
MaxCopyCells == 1
\* Largest number of cells of a dense buffer converted to lists.
MaxDenseCells == 4
\* Largest number of cells of a storage that is built from a dense buffer,
\* changed and copied in one run.
MaxMixedCells == 2
\* Largest number of cells of a storage that is cast-copied.
MaxCastCells == 1
\* Number of heap addresses.
MaxAddr == 48
\* Number of copies one run takes (each copy leaks one LIST block).
MaxCopies == 1

\* ------------------------------------------------------------------ heap

NULL == 0

Addr == 1..MaxAddr

\* Scalars a caller stores, and the defaults a storage is created with.
Values == {0, 1}
Defaults == {0, 1}

FreeBlock == [kind |-> "free"]

\* malloc: the lowest free address (NULL when the heap is exhausted).
RECURSIVE LowestFree(_, _)
LowestFree(h, a) ==
  IF a > MaxAddr THEN NULL ELSE IF h[a].kind = "free" THEN a ELSE LowestFree(h, a + 1)

Alloc(h) == LowestFree(h, 1)

\* Number of free addresses left.
Room(h) == Cardinality({a \in Addr : h[a].kind = "free"})

\* free(p); free(NULL) does nothing.
Free(h, p) == IF p = NULL THEN h ELSE [h EXCEPT ![p] = FreeBlock]

\* A freshly malloc'ed scalar holding v.
Scalar(v) == [kind |-> "scalar", v |-> v]

\* ------------------------------------------------------------------ sl_list

\* list_create(): a new empty LIST.
list_create(h) ==
  LET l == Alloc(h) IN [h |-> [h EXCEPT ![l] = [kind |-> "LIST", first |-> NULL]], l |-> l]

\* The last node from n on whose key is <= key (n's key is <= key).
RECURSIVE list_find_nearest_from(_, _, _)
list_find_nearest_from(h, n, key) ==
  IF h[n].next = NULL \/ h[h[n].next].key > key THEN n
  ELSE list_find_nearest_from(h, h[n].next, key)

\* list_find(list, key): the node with that key, else NULL.
list_find(h, l, key) ==
  LET f == h[l].first IN
  IF f = NULL \/ h[f].key > key THEN NULL
  ELSE LET n == list_find_nearest_from(h, f, key) IN
       IF h[n].key = key THEN n ELSE NULL

\* list_insert_after(prev, key, val): links a new node right after prev.
list_insert_after(h, prev, key, val) ==
  LET ins == Alloc(h) IN
  [h |-> [h EXCEPT ![ins] = [kind |-> "NODE", key |-> key, val |-> val, next |-> h[prev].next],
                   ![prev].next = ins],
   n |-> ins]

\* list_insert(list, replace, key, val): ordered insert; an existing key keeps
\* its node, and either takes val (replace, the old value released) or keeps
\* its value (val released).
list_insert(h, l, replace, key, val) ==
  LET f == h[l].first IN
  IF f = NULL \/ key < h[f].key
  THEN LET ins == Alloc(h) IN
       [h |-> [h EXCEPT ![ins] = [kind |-> "NODE", key |-> key, val |-> val, next |-> f],
                        ![l].first = ins],
        n |-> ins]
  ELSE LET ins == list_find_nearest_from(h, f, key) IN
       IF h[ins].key = key
       THEN IF replace
            THEN [h |-> [Free(h, h[ins].val) EXCEPT ![ins].val = val], n |-> ins]
            ELSE [h |-> Free(h, val), n |-> ins]
       ELSE list_insert_after(h, ins, key, val)

\* The node before the one holding key, from n on (NULL if key is absent).
RECURSIVE list_find_prev(_, _, _)
list_find_prev(h, n, key) ==
  IF h[n].next = NULL \/ h[h[n].next].key > key THEN NULL
  ELSE IF h[h[n].next].key = key THEN n
  ELSE list_find_prev(h, h[n].next, key)

\* list_remove(list, key): unlinks and frees the node, returns its value;
\* NULL when the key is absent.
list_remove(h, l, key) ==
  LET f == h[l].first IN
  IF f = NULL \/ h[f].key > key THEN [h |-> h, rm |-> NULL]
  ELSE IF h[f].key = key
  THEN [h |-> Free([h EXCEPT ![l].first = h[f].next], f), rm |-> h[f].val]
  ELSE LET p == list_find_prev(h, f, key) IN
       IF p = NULL THEN [h |-> h, rm |-> NULL]
       ELSE LET n == h[p].next IN
            [h |-> Free([h EXCEPT ![p].next = h[n].next], n), rm |-> h[n].val]

\* list_delete(list, recursions): frees the nodes from n on with what they
\* hold, nested lists to the given depth, then (list_delete) the list itself.
RECURSIVE list_delete(_, _, _)
RECURSIVE list_delete_from(_, _, _)
list_delete_from(h, n, recursions) ==
  IF n = NULL THEN h
  ELSE LET h1 == IF recursions = 0 THEN Free(h, h[n].val)
                 ELSE list_delete(h, h[n].val, recursions - 1)
       IN list_delete_from(Free(h1, n), h[n].next, recursions)

list_delete(h, l, recursions) == Free(list_delete_from(h, h[l].first, recursions), l)

\* The conversion of a scalar of dtype r_dtype to l_dtype (memcpy where the
\* two are the same): int8 keeps the low 8 bits, two's complement.
Cast(l_dtype, r_dtype, v) ==
  IF l_dtype = r_dtype THEN v
  ELSE IF l_dtype = "int8" THEN ((v + 128) % 256) - 128
  ELSE v

\* list_cast_copy_contents(lhs, rhs, l_dtype, r_dtype, recursions): fills the
\* empty list lhs with fresh nodes holding fresh copies of what rhs holds.
\* copy_node_from copies the chain from rnode on and returns its head.
RECURSIVE list_cast_copy_contents(_, _, _, _, _, _)
RECURSIVE copy_node_from(_, _, _, _, _)
copy_node_from(h, rnode, l_dtype, r_dtype, recursions) ==
  IF rnode = NULL THEN [h |-> h, n |-> NULL]
  ELSE LET lcurr == Alloc(h)
           h1 == [h EXCEPT ![lcurr] = [kind |-> "NODE", key |-> h[rnode].key, val |-> NULL, next |-> NULL]]
           val == Alloc(h1)
           h2 == IF recursions = 0
                 THEN [h1 EXCEPT ![val] = Scalar(Cast(l_dtype, r_dtype, h[h[rnode].val].v))]
                 ELSE list_cast_copy_contents([h1 EXCEPT ![val] = [kind |-> "LIST", first |-> NULL]],
                                              val, h[rnode].val, l_dtype, r_dtype, recursions - 1)
           rest == copy_node_from(h2, h[rnode].next, l_dtype, r_dtype, recursions)
       IN [h |-> [rest.h EXCEPT ![lcurr].val = val, ![lcurr].next = rest.n], n |-> lcurr]

list_cast_copy_contents(h, lhs, rhs, l_dtype, r_dtype, recursions) ==
  LET cp == copy_node_from(h, h[rhs].first, l_dtype, r_dtype, recursions)
  IN [cp.h EXCEPT ![lhs].first = cp.n]

\* ElemEqEq[dtype][0](x, y, 1, size): the two scalars are equal.
ElemEqEq(h, x, y) == h[x].v = h[y].v

\* list_eqeq_value(l, v, dtype, recursions, checked): every scalar stored
\* under l equals the scalar at v; checked counts the scalars compared.
RECURSIVE eqeq_value_from(_, _, _, _, _)
eqeq_value_from(h, n, v, recursions, checked) ==
  IF n = NULL THEN [ok |-> TRUE, checked |-> checked]
  ELSE LET here == IF recursions = 0
                   THEN [ok |-> ElemEqEq(h, h[n].val, v), checked |-> checked + 1]
                   ELSE eqeq_value_from(h, h[h[n].val].first, v, recursions - 1, checked)
       IN IF ~here.ok THEN here
          ELSE eqeq_value_from(h, h[n].next, v, recursions, here.checked)

list_eqeq_value(h, l, v, recursions, checked) ==
  eqeq_value_from(h, h[l].first, v, recursions, checked)

\* list_eqeq_list(left, right, left_val, right_val, dtype, recursions,
\* checked): the two lists walked in ascending-key lock step; a key on one
\* side only is compared with the other side's default, a key on both sides
\* directly.
RECURSIVE eqeq_list_from(_, _, _, _, _, _, _)
eqeq_list_from(h, lcurr, rcurr, left_val, right_val, recursions, checked) ==
  IF lcurr = NULL /\ rcurr = NULL THEN [ok |-> TRUE, checked |-> checked]
  ELSE IF rcurr = NULL \/ (lcurr # NULL /\ h[lcurr].key < h[rcurr].key)
  THEN LET here == IF recursions = 0
                   THEN [ok |-> ElemEqEq(h, h[lcurr].val, right_val), checked |-> checked + 1]
                   ELSE eqeq_value_from(h, h[h[lcurr].val].first, right_val, recursions - 1, checked)
       IN IF ~here.ok THEN here
          ELSE eqeq_list_from(h, h[lcurr].next, rcurr, left_val, right_val, recursions, here.checked)
  ELSE IF lcurr = NULL \/ h[rcurr].key < h[lcurr].key
  THEN LET here == IF recursions = 0
                   THEN [ok |-> ElemEqEq(h, h[rcurr].val, left_val), checked |-> checked + 1]
                   ELSE eqeq_value_from(h, h[h[rcurr].val].first, left_val, recursions - 1, checked)
       IN IF ~here.ok THEN here
          ELSE eqeq_list_from(h, lcurr, h[rcurr].next, left_val, right_val, recursions, here.checked)
  ELSE LET here == IF recursions = 0
                   THEN [ok |-> ElemEqEq(h, h[lcurr].val, h[rcurr].val), checked |-> checked + 1]
                   ELSE eqeq_list_from(h, h[h[lcurr].val].first, h[h[rcurr].val].first,
                                       left_val, right_val, recursions - 1, checked)
       IN IF ~here.ok THEN here
          ELSE eqeq_list_from(h, h[lcurr].next, h[rcurr].next, left_val, right_val, recursions,
                              here.checked)

list_eqeq_list(h, left, right, left_val, right_val, recursions, checked) ==
  eqeq_list_from(h, h[left].first, h[right].first, left_val, right_val, recursions, checked)

\* ------------------------------------------------------------------ storage

\* 0-based coordinate tuples inside a shape.
Coords(shape) ==
  {c \in [1..Len(shape) -> 0..(MaxExtent - 1)] : \A i \in 1..Len(shape) : c[i] < shape[i]}

RECURSIVE Prod(_)
Prod(sq) == IF sq = <<>> THEN 1 ELSE Head(sq) * Prod(Tail(sq))

\* storage_count_max_elements(rank, shape)
storage_count_max_elements(rank, shape) == Prod(SubSeq(shape, 1, rank))

\* The ranks the accessors are specified for.
Ranks == {1, 2, 3}

AllShapes == UNION {[1..r -> 1..MaxExtent] : r \in Ranks}

\* list_storage_create(dtype, shape, rank, init_val): shape and init_val are
\* the caller's buffers and become the storage's.
list_storage_create(h, dtype, shape, rank, init_val) ==
  LET s  == Alloc(h)
      h1 == [h EXCEPT ![s] = [kind |-> "LIST_STORAGE", rank |-> rank, shape |-> shape,
                              dtype |-> dtype, rows |-> NULL, default_val |-> init_val]]
      lc == list_create(h1)
  IN [h |-> [lc.h EXCEPT ![s].rows = lc.l], s |-> s]

\* The extents held in the storage's shape buffer.
ShapeOf(h, s) == h[h[s].shape].dims

\* ref_walk looking up coords[0] at every level.
RECURSIVE ref_walk_first_coord(_, _, _, _, _)
ref_walk_first_coord(h, s, l, coords, r) ==
  LET n == list_find(h, l, coords[1]) IN
  IF r > 1
  THEN IF n # NULL THEN ref_walk_first_coord(h, s, h[n].val, coords, r - 1) ELSE h[s].default_val
  ELSE IF n # NULL THEN h[n].val ELSE h[s].default_val

\* list_storage_ref(s, slice): the stored value's address, else default_val.
RECURSIVE ref_walk(_, _, _, _, _)
ref_walk(h, s, l, coords, r) ==
  LET n == list_find(h, l, coords[h[s].rank - r + 1]) IN
  IF r > 1
  THEN IF n # NULL THEN ref_walk(h, s, h[n].val, coords, r - 1) ELSE h[s].default_val
  ELSE IF n # NULL THEN h[n].val ELSE h[s].default_val

list_storage_ref(h, s, coords) == ref_walk(h, s, h[s].rows, coords, h[s].rank)

\* insert_walk whose leaf insert does not replace.
RECURSIVE insert_walk_no_replace(_, _, _, _, _, _)
insert_walk_no_replace(h, s, l, coords, val, r) ==
  IF r > 1
  THEN LET lc == list_create(h)
           li == list_insert(lc.h, l, FALSE, coords[h[s].rank - r + 1], lc.l)
       IN insert_walk_no_replace(li.h, s, li.h[li.n].val, coords, val, r - 1)
  ELSE LET li == list_insert(h, l, FALSE, coords[h[s].rank - r + 1], val)
       IN [h |-> li.h, ret |-> li.h[li.n].val]

\* insert_walk whose intermediate inserts replace too.
RECURSIVE insert_walk_replace_rows(_, _, _, _, _, _)
insert_walk_replace_rows(h, s, l, coords, val, r) ==
  IF r > 1
  THEN LET lc == list_create(h)
           li == list_insert(lc.h, l, TRUE, coords[h[s].rank - r + 1], lc.l)
       IN insert_walk_replace_rows(li.h, s, li.h[li.n].val, coords, val, r - 1)
  ELSE LET li == list_insert(h, l, TRUE, coords[h[s].rank - r + 1], val)
       IN [h |-> li.h, ret |-> li.h[li.n].val]

\* list_storage_insert(s, slice, val): find-or-create down the intermediate
\* levels, then an overwriting insert at the leaf level; returns n->val.
RECURSIVE insert_walk(_, _, _, _, _, _)
insert_walk(h, s, l, coords, val, r) ==
  IF r > 1
  THEN LET lc == list_create(h)
           li == list_insert(lc.h, l, FALSE, coords[h[s].rank - r + 1], lc.l)
       IN insert_walk(li.h, s, li.h[li.n].val, coords, val, r - 1)
  ELSE LET li == list_insert(h, l, TRUE, coords[h[s].rank - r + 1], val)
       IN [h |-> li.h, ret |-> li.h[li.n].val]

list_storage_insert(h, s, coords, val) ==
  insert_walk(h, s, h[s].rows, coords, val, h[s].rank)

\* The loop of list_storage_remove that walks back up the traversal stack
\* (r is the 0-based level): where the nested list of stack[r] is empty,
\* free(list_remove(stack[r]->val, coords[r])), else stop.
RECURSIVE remove_prune(_, _, _, _)
remove_prune(h, stack, coords, r) ==
  IF r < 0 THEN h
  ELSE IF h[h[stack[r + 1]].val].first = NULL
  THEN LET lr == list_remove(h, h[stack[r + 1]].val, coords[r + 1])
       IN remove_prune(Free(lr.h, lr.rm), stack, coords, r - 1)
  ELSE h

\* list_storage_remove(s, slice). stack is an ALLOCA_N block, so it is no
\* heap address; freed_stack tells that free(stack) ran (the not-found
\* return), which the C standard leaves undefined.
RECURSIVE remove_walk(_, _, _, _, _, _)
remove_walk(h, s, l, coords, stack, r) ==
  IF r > 1
  THEN LET n == list_find(h, l, coords[h[s].rank - r + 1]) IN
       IF n = NULL
       THEN [h |-> h, rm |-> NULL, freed_stack |-> TRUE]
       ELSE remove_walk(h, s, h[n].val, coords, Append(stack, n), r - 1)
  ELSE LET lr == list_remove(h, l, coords[h[s].rank - r + 1]) IN
       [h |-> IF lr.rm # NULL THEN remove_prune(lr.h, stack, coords, h[s].rank - 2) ELSE lr.h,
        rm |-> lr.rm, freed_stack |-> FALSE]

list_storage_remove(h, s, coords) ==
  remove_walk(h, s, h[s].rows, coords, <<>>, h[s].rank)

\* list_storage_delete(s): the node graph, the shape, the default, the record.
list_storage_delete(h, s) ==
  IF s = NULL THEN h
  ELSE LET h1 == list_delete(h, h[s].rows, h[s].rank - 1)
           h2 == Free(h1, h[s].shape)
           h3 == Free(h2, h[s].default_val)
       IN Free(h3, s)

\* list_storage_eqeq whose both-populated case never compares the defaults.
eqeq_unchecked_defaults(h, left, right) ==
  LET max_elements == storage_count_max_elements(h[left].rank, ShapeOf(h, left))
      defaults_eq  == ElemEqEq(h, h[left].default_val, h[right].default_val)
  IN IF h[h[left].rows].first = NULL
     THEN IF h[h[right].rows].first = NULL THEN defaults_eq
          ELSE LET e == list_eqeq_value(h, h[right].rows, h[left].default_val, h[left].rank - 1, 0)
               IN IF ~e.ok THEN FALSE
                  ELSE IF e.checked < max_elements THEN defaults_eq
                  ELSE TRUE
     ELSE IF h[h[right].rows].first = NULL
     THEN LET e == list_eqeq_value(h, h[left].rows, h[right].default_val, h[left].rank - 1, 0)
          IN IF ~e.ok THEN FALSE
             ELSE IF e.checked < max_elements THEN defaults_eq
             ELSE TRUE
     ELSE LET e == list_eqeq_list(h, h[left].rows, h[right].rows, h[left].default_val,
                                  h[right].default_val, h[left].rank - 1, 0)
          IN IF ~e.ok THEN FALSE
             ELSE TRUE

\* list_storage_eqeq whose right-empty case never compares the defaults.
eqeq_right_empty_unchecked(h, left, right) ==
  LET max_elements == storage_count_max_elements(h[left].rank, ShapeOf(h, left))
      defaults_eq  == ElemEqEq(h, h[left].default_val, h[right].default_val)
  IN IF h[h[left].rows].first = NULL
     THEN IF h[h[right].rows].first = NULL THEN defaults_eq
          ELSE LET e == list_eqeq_value(h, h[right].rows, h[left].default_val, h[left].rank - 1, 0)
               IN IF ~e.ok THEN FALSE
                  ELSE IF e.checked < max_elements THEN defaults_eq
                  ELSE TRUE
     ELSE IF h[h[right].rows].first = NULL
     THEN LET e == list_eqeq_value(h, h[left].rows, h[right].default_val, h[left].rank - 1, 0)
          IN IF ~e.ok THEN FALSE
             ELSE TRUE
     ELSE LET e == list_eqeq_list(h, h[left].rows, h[right].rows, h[left].default_val,
                                  h[right].default_val, h[left].rank - 1, 0)
          IN IF ~e.ok THEN FALSE
             ELSE IF e.checked < max_elements THEN defaults_eq
             ELSE TRUE

\* list_storage_eqeq(left, right)
list_storage_eqeq(h, left, right) ==
  LET max_elements == storage_count_max_elements(h[left].rank, ShapeOf(h, left))
      defaults_eq  == ElemEqEq(h, h[left].default_val, h[right].default_val)
  IN IF h[h[left].rows].first = NULL
     THEN IF h[h[right].rows].first = NULL THEN defaults_eq
          ELSE LET e == list_eqeq_value(h, h[right].rows, h[left].default_val, h[left].rank - 1, 0)
               IN IF ~e.ok THEN FALSE
                  ELSE IF e.checked < max_elements THEN defaults_eq
                  ELSE TRUE
     ELSE IF h[h[right].rows].first = NULL
     THEN LET e == list_eqeq_value(h, h[left].rows, h[right].default_val, h[left].rank - 1, 0)
          IN IF ~e.ok THEN FALSE
             ELSE IF e.checked < max_elements THEN defaults_eq
             ELSE TRUE
     ELSE LET e == list_eqeq_list(h, h[left].rows, h[right].rows, h[left].default_val,
                                  h[right].default_val, h[left].rank - 1, 0)
          IN IF ~e.ok THEN FALSE
             ELSE IF e.checked < max_elements THEN defaults_eq
             ELSE TRUE

\* list_storage_copy that leaves the new rows list empty.
copy_without_contents(h, rhs) ==
  LET default_val == Alloc(h)
      h1    == [h EXCEPT ![default_val] = Scalar(0)]
      shape == Alloc(h1)
      h2    == [h1 EXCEPT ![shape] = [kind |-> "shape", dims |-> h[h[rhs].shape].dims],
                          ![default_val] = Scalar(h[h[rhs].default_val].v)]
      lhs   == list_storage_create(h2, h[rhs].dtype, shape, h[rhs].rank, default_val)
      lc    == list_create(lhs.h)
      h3    == [lc.h EXCEPT ![lhs.s].rows = lc.l]
  IN [h |-> h3,
      s |-> lhs.s]

\* list_storage_copy that hands the source's shape buffer to the new record.
copy_sharing_shape(h, rhs) ==
  LET default_val == Alloc(h)
      h1    == [h EXCEPT ![default_val] = Scalar(0)]
      shape == Alloc(h1)
      h2    == [h1 EXCEPT ![shape] = [kind |-> "shape", dims |-> h[h[rhs].shape].dims],
                          ![default_val] = Scalar(h[h[rhs].default_val].v)]
      lhs   == list_storage_create(h2, h[rhs].dtype, h[rhs].shape, h[rhs].rank, default_val)
      lc    == list_create(lhs.h)
      h3    == [lc.h EXCEPT ![lhs.s].rows = lc.l]
  IN [h |-> list_cast_copy_contents(h3, lc.l, h[rhs].rows, h[rhs].dtype, h[rhs].dtype, h[rhs].rank - 1),
      s |-> lhs.s]

\* list_storage_copy(rhs): fresh default and shape buffers, a fresh record
\* (whose first rows list is overwritten by a second list_create and so
\* leaked), and a deep copy of the node graph.
list_storage_copy(h, rhs) ==
  LET default_val == Alloc(h)
      h1    == [h EXCEPT ![default_val] = Scalar(0)]
      shape == Alloc(h1)
      h2    == [h1 EXCEPT ![shape] = [kind |-> "shape", dims |-> h[h[rhs].shape].dims],
                          ![default_val] = Scalar(h[h[rhs].default_val].v)]
      lhs   == list_storage_create(h2, h[rhs].dtype, shape, h[rhs].rank, default_val)
      lc    == list_create(lhs.h)
      h3    == [lc.h EXCEPT ![lhs.s].rows = lc.l]
  IN [h |-> list_cast_copy_contents(h3, lc.l, h[rhs].rows, h[rhs].dtype, h[rhs].dtype, h[rhs].rank - 1),
      s |-> lhs.s]

\* list_storage_cast_copy_contents_dense_template<LDType, RDType>(lhs, rhs,
\* zero, pos, coords, shape, rank, recursions). dense_loop is its for loop,
\* k being coords[rank-1-recursions]; prev is NULL until the loop sets it;
\* rhs[pos] is compared with the zero that the pointer zero refers to. The
\* result's pre is FALSE, and the construction stops, where a call of
\* list_insert_after would break InsertAfterPre.
\* The last node of the chain from n on.
RECURSIVE LastNode(_, _)
LastNode(h, n) == IF h[n].next = NULL THEN n ELSE LastNode(h, h[n].next)

\* What list_insert_after(prev, key, val) asks of a caller that builds the
\* list l in ascending order: prev is set, it is the last node of l, and key
\* is above its key.
InsertAfterPre(h, l, prev, key) ==
  /\ prev # NULL /\ h[l].first # NULL
  /\ prev = LastNode(h, h[l].first)
  /\ key > h[prev].key

RECURSIVE list_storage_cast_copy_contents_dense_template(_, _, _, _, _, _, _, _, _, _)
RECURSIVE dense_loop(_, _, _, _, _, _, _, _, _, _, _, _, _)

\* dense_loop that attaches every sub-list, whatever it holds.
dense_loop_always_attach(h, lhs, rhs, zero, pos, k, shape, rank, recursions, l_dtype, r_dtype, prev, added) ==
  IF k >= shape[rank - recursions]
  THEN [h |-> h, pos |-> pos - 1, added |-> added, pre |-> TRUE]
  ELSE IF recursions = 0
  THEN IF rhs[pos + 1] # zero
       THEN LET insert_value == Alloc(h)
                h1  == [h EXCEPT ![insert_value] = Scalar(Cast(l_dtype, r_dtype, rhs[pos + 1]))]
                ins == IF h1[lhs].first = NULL
                       THEN list_insert(h1, lhs, FALSE, k, insert_value)
                       ELSE list_insert_after(h1, prev, k, insert_value)
            IN IF h1[lhs].first # NULL /\ ~InsertAfterPre(h1, lhs, prev, k)
               THEN [h |-> h1, pos |-> pos, added |-> added, pre |-> FALSE]
               ELSE dense_loop(ins.h, lhs, rhs, zero, pos + 1, k + 1, shape, rank, recursions,
                               l_dtype, r_dtype, ins.n, TRUE)
       ELSE dense_loop(h, lhs, rhs, zero, pos + 1, k + 1, shape, rank, recursions,
                       l_dtype, r_dtype, prev, added)
  ELSE LET lc  == list_create(h)
           sub == list_storage_cast_copy_contents_dense_template(
                    lc.h, lc.l, rhs, zero, pos, shape, rank, recursions - 1, l_dtype, r_dtype)
       IN IF ~sub.pre THEN [h |-> sub.h, pos |-> sub.pos, added |-> added, pre |-> FALSE]
          ELSE IF FALSE
          THEN dense_loop(list_delete(sub.h, lc.l, recursions - 1), lhs, rhs, zero, sub.pos + 1,
                          k + 1, shape, rank, recursions, l_dtype, r_dtype, prev, added)
          ELSE LET ins == IF sub.h[lhs].first = NULL
                          THEN list_insert(sub.h, lhs, FALSE, k, lc.l)
                          ELSE list_insert_after(sub.h, prev, k, lc.l)
               IN IF sub.h[lhs].first # NULL /\ ~InsertAfterPre(sub.h, lhs, prev, k)
                  THEN [h |-> sub.h, pos |-> sub.pos, added |-> added, pre |-> FALSE]
                  ELSE dense_loop(ins.h, lhs, rhs, zero, sub.pos + 1, k + 1, shape, rank, recursions,
                                  l_dtype, r_dtype, ins.n, added)

\* dense_loop that keys a sub-list by the coordinate of the level below
\* (coords[rank-recursions], back at 0 by then) instead of its own.
dense_loop_inner_key(h, lhs, rhs, zero, pos, k, shape, rank, recursions, l_dtype, r_dtype, prev, added) ==
  IF k >= shape[rank - recursions]
  THEN [h |-> h, pos |-> pos - 1, added |-> added, pre |-> TRUE]
  ELSE IF recursions = 0
  THEN IF rhs[pos + 1] # zero
       THEN LET insert_value == Alloc(h)
                h1  == [h EXCEPT ![insert_value] = Scalar(Cast(l_dtype, r_dtype, rhs[pos + 1]))]
                ins == IF h1[lhs].first = NULL
                       THEN list_insert(h1, lhs, FALSE, k, insert_value)
                       ELSE list_insert_after(h1, prev, k, insert_value)
            IN IF h1[lhs].first # NULL /\ ~InsertAfterPre(h1, lhs, prev, k)
               THEN [h |-> h1, pos |-> pos, added |-> added, pre |-> FALSE]
               ELSE dense_loop(ins.h, lhs, rhs, zero, pos + 1, k + 1, shape, rank, recursions,
                               l_dtype, r_dtype, ins.n, TRUE)
       ELSE dense_loop(h, lhs, rhs, zero, pos + 1, k + 1, shape, rank, recursions,
                       l_dtype, r_dtype, prev, added)
  ELSE LET lc  == list_create(h)
           sub == list_storage_cast_copy_contents_dense_template(
                    lc.h, lc.l, rhs, zero, pos, shape, rank, recursions - 1, l_dtype, r_dtype)
       IN IF ~sub.pre THEN [h |-> sub.h, pos |-> sub.pos, added |-> added, pre |-> FALSE]
          ELSE IF ~sub.added
          THEN dense_loop(list_delete(sub.h, lc.l, recursions - 1), lhs, rhs, zero, sub.pos + 1,
                          k + 1, shape, rank, recursions, l_dtype, r_dtype, prev, added)
          ELSE LET ins == IF sub.h[lhs].first = NULL
                          THEN list_insert(sub.h, lhs, FALSE, 0, lc.l)
                          ELSE list_insert_after(sub.h, prev, 0, lc.l)
               IN IF sub.h[lhs].first # NULL /\ ~InsertAfterPre(sub.h, lhs, prev, k)
                  THEN [h |-> sub.h, pos |-> sub.pos, added |-> added, pre |-> FALSE]
                  ELSE dense_loop(ins.h, lhs, rhs, zero, sub.pos + 1, k + 1, shape, rank, recursions,
                                  l_dtype, r_dtype, ins.n, added)

\* dense_loop that does not keep the node list_insert returns for a first
\* leaf.
dense_loop_prev_unset(h, lhs, rhs, zero, pos, k, shape, rank, recursions, l_dtype, r_dtype, prev, added) ==
  IF k >= shape[rank - recursions]
  THEN [h |-> h, pos |-> pos - 1, added |-> added, pre |-> TRUE]
  ELSE IF recursions = 0
  THEN IF rhs[pos + 1] # zero
       THEN LET insert_value == Alloc(h)
                h1  == [h EXCEPT ![insert_value] = Scalar(Cast(l_dtype, r_dtype, rhs[pos + 1]))]
                ins == IF h1[lhs].first = NULL
                       THEN list_insert(h1, lhs, FALSE, k, insert_value)
                       ELSE list_insert_after(h1, prev, k, insert_value)
            IN IF h1[lhs].first # NULL /\ ~InsertAfterPre(h1, lhs, prev, k)
               THEN [h |-> h1, pos |-> pos, added |-> added, pre |-> FALSE]
               ELSE dense_loop(ins.h, lhs, rhs, zero, pos + 1, k + 1, shape, rank, recursions,
                               l_dtype, r_dtype,
                               IF h1[lhs].first = NULL THEN prev ELSE ins.n, TRUE)
       ELSE dense_loop(h, lhs, rhs, zero, pos + 1, k + 1, shape, rank, recursions,
                       l_dtype, r_dtype, prev, added)
  ELSE LET lc  == list_create(h)
           sub == list_storage_cast_copy_contents_dense_template(
                    lc.h, lc.l, rhs, zero, pos, shape, rank, recursions - 1, l_dtype, r_dtype)
       IN IF ~sub.pre THEN [h |-> sub.h, pos |-> sub.pos, added |-> added, pre |-> FALSE]
          ELSE IF ~sub.added
          THEN dense_loop(list_delete(sub.h, lc.l, recursions - 1), lhs, rhs, zero, sub.pos + 1,
                          k + 1, shape, rank, recursions, l_dtype, r_dtype, prev, added)
          ELSE LET ins == IF sub.h[lhs].first = NULL
                          THEN list_insert(sub.h, lhs, FALSE, k, lc.l)
                          ELSE list_insert_after(sub.h, prev, k, lc.l)
               IN IF sub.h[lhs].first # NULL /\ ~InsertAfterPre(sub.h, lhs, prev, k)
                  THEN [h |-> sub.h, pos |-> sub.pos, added |-> added, pre |-> FALSE]
                  ELSE dense_loop(ins.h, lhs, rhs, zero, sub.pos + 1, k + 1, shape, rank, recursions,
                                  l_dtype, r_dtype, ins.n, added)

dense_loop(h, lhs, rhs, zero, pos, k, shape, rank, recursions, l_dtype, r_dtype, prev, added) ==
  IF k >= shape[rank - recursions]
  THEN [h |-> h, pos |-> pos - 1, added |-> added, pre |-> TRUE]
  ELSE IF recursions = 0
  THEN IF rhs[pos + 1] # zero
       THEN LET insert_value == Alloc(h)
                h1  == [h EXCEPT ![insert_value] = Scalar(Cast(l_dtype, r_dtype, rhs[pos + 1]))]
                ins == IF h1[lhs].first = NULL
                       THEN list_insert(h1, lhs, FALSE, k, insert_value)
                       ELSE list_insert_after(h1, prev, k, insert_value)
            IN IF h1[lhs].first # NULL /\ ~InsertAfterPre(h1, lhs, prev, k)
               THEN [h |-> h1, pos |-> pos, added |-> added, pre |-> FALSE]
               ELSE dense_loop(ins.h, lhs, rhs, zero, pos + 1, k + 1, shape, rank, recursions,
                               l_dtype, r_dtype, ins.n, TRUE)
       ELSE dense_loop(h, lhs, rhs, zero, pos + 1, k + 1, shape, rank, recursions,
                       l_dtype, r_dtype, prev, added)
  ELSE LET lc  == list_create(h)
           sub == list_storage_cast_copy_contents_dense_template(
                    lc.h, lc.l, rhs, zero, pos, shape, rank, recursions - 1, l_dtype, r_dtype)
       IN IF ~sub.pre THEN [h |-> sub.h, pos |-> sub.pos, added |-> added, pre |-> FALSE]
          ELSE IF ~sub.added
          THEN dense_loop(list_delete(sub.h, lc.l, recursions - 1), lhs, rhs, zero, sub.pos + 1,
                          k + 1, shape, rank, recursions, l_dtype, r_dtype, prev, added)
          ELSE LET ins == IF sub.h[lhs].first = NULL
                          THEN list_insert(sub.h, lhs, FALSE, k, lc.l)
                          ELSE list_insert_after(sub.h, prev, k, lc.l)
               IN IF sub.h[lhs].first # NULL /\ ~InsertAfterPre(sub.h, lhs, prev, k)
                  THEN [h |-> sub.h, pos |-> sub.pos, added |-> added, pre |-> FALSE]
                  ELSE dense_loop(ins.h, lhs, rhs, zero, sub.pos + 1, k + 1, shape, rank, recursions,
                                  l_dtype, r_dtype, ins.n, added)

list_storage_cast_copy_contents_dense_template(h, lhs, rhs, zero, pos, shape, rank, recursions, l_dtype, r_dtype) ==
  dense_loop(h, lhs, rhs, zero, pos, 0, shape, rank, recursions, l_dtype, r_dtype, NULL, FALSE)

\* list_storage_get that hands back what list_storage_ref finds.
get_as_ref(h, s, slice) ==
  [h |-> h, ret |-> list_storage_ref(h, s, slice), raised |-> "none"]

\* list_storage_get(s, slice): rb_raise, which does not return.
list_storage_get(h, s, slice) ==
  [h |-> h, ret |-> NULL, raised |-> "NotImpError"]

\* The dtypes that have conversions registered with each other, and one
\* that has none.
DTypes == {"int8", "int32"}

AllDTypes == DTypes \cup {"other"}

\* list_storage_cast_copy_template that leaves the new default unset.
cast_copy_template_plain_default(h, rhs, new_dtype, l_dtype, r_dtype) ==
  LET default_val == Alloc(h)
      h1    == [h EXCEPT ![default_val] = Scalar(0)]
      shape == Alloc(h1)
      h2    == [h1 EXCEPT ![shape] = [kind |-> "shape", dims |-> h[h[rhs].shape].dims],
                          ![default_val] = Scalar(0)]
      lhs   == list_storage_create(h2, new_dtype, shape, h[rhs].rank, default_val)
      lc    == list_create(lhs.h)
      h3    == [lc.h EXCEPT ![lhs.s].rows = lc.l]
  IN [h |-> list_cast_copy_contents(h3, lc.l, h[rhs].rows, l_dtype, r_dtype, h[rhs].rank - 1),
      s |-> lhs.s, raised |-> "none"]

\* list_storage_cast_copy_template<LDType, RDType>(rhs, new_dtype): a fresh
\* converted default, a fresh shape, a fresh record (whose first rows list
\* is overwritten by a second list_create and so leaked), and a converted
\* deep copy of the node graph.
list_storage_cast_copy_template(h, rhs, new_dtype, l_dtype, r_dtype) ==
  LET default_val == Alloc(h)
      h1    == [h EXCEPT ![default_val] = Scalar(0)]
      shape == Alloc(h1)
      h2    == [h1 EXCEPT ![shape] = [kind |-> "shape", dims |-> h[h[rhs].shape].dims],
                          ![default_val] = Scalar(Cast(l_dtype, r_dtype, h[h[rhs].default_val].v))]
      lhs   == list_storage_create(h2, new_dtype, shape, h[rhs].rank, default_val)
      lc    == list_create(lhs.h)
      h3    == [lc.h EXCEPT ![lhs.s].rows = lc.l]
  IN [h |-> list_cast_copy_contents(h3, lc.l, h[rhs].rows, l_dtype, r_dtype, h[rhs].rank - 1),
      s |-> lhs.s, raised |-> "none"]

\* ttable[new_dtype][rhs->dtype](rhs, new_dtype), the table that
\* LR_DTYPE_TEMPLATE_TABLE builds: the template instance of a registered
\* pair, a type-conversion error for any other.
ttable(h, rhs, new_dtype) ==
  IF new_dtype \in DTypes /\ h[rhs].dtype \in DTypes
  THEN list_storage_cast_copy_template(h, rhs, new_dtype, new_dtype, h[rhs].dtype)
  ELSE [h |-> h, s |-> NULL, raised |-> "TypeConversionError"]

\* list_storage_cast_copy that calls the template whatever the pair.
cast_copy_unchecked(h, rhs, new_dtype) ==
  list_storage_cast_copy_template(h, rhs, new_dtype, new_dtype, h[rhs].dtype)

\* list_storage_cast_copy(rhs, new_dtype)
list_storage_cast_copy(h, rhs, new_dtype) == ttable(h, rhs, new_dtype)

\* list_storage_count_elements_r that counts the nodes of l itself, whatever
\* the depth.
count_elements_flat(h, l, recursions) ==
  LET RECURSIVE flat(_)
      flat(curr) == IF curr = NULL THEN 0 ELSE 1 + flat(h[curr].next)
  IN flat(h[l].first)

\* list_storage_count_elements_r(l, recursions): count_from is its two while
\* loops, from curr on.
RECURSIVE list_storage_count_elements_r(_, _, _)
RECURSIVE count_from(_, _, _)
count_from(h, curr, recursions) ==
  IF curr = NULL THEN 0
  ELSE IF recursions > 0
  THEN list_storage_count_elements_r(h, h[curr].val, recursions - 1)
       + count_from(h, h[curr].next, recursions)
  ELSE 1 + count_from(h, h[curr].next, recursions)

list_storage_count_elements_r(h, l, recursions) == count_from(h, h[l].first, recursions)

\* count_list_storage_nd_elements(s): nd_row is the inner loop from j_curr
\* on (the nodes whose key is not the row's), nd_rows the outer loop from
\* i_curr on; any rank but 2 raises.
RECURSIVE nd_row(_, _, _)
nd_row(h, i_key, j_curr) ==
  IF j_curr = NULL THEN 0
  ELSE (IF i_key # h[j_curr].key THEN 1 ELSE 0) + nd_row(h, i_key, h[j_curr].next)

RECURSIVE nd_rows(_, _)
nd_rows(h, i_curr) ==
  IF i_curr = NULL THEN 0
  ELSE nd_row(h, h[i_curr].key, h[h[i_curr].val].first) + nd_rows(h, h[i_curr].next)

count_list_storage_nd_elements(h, s) ==
  IF h[s].rank # 2 THEN [count |-> 0, raised |-> "NotImpError"]
  ELSE [count |-> nd_rows(h, h[h[s].rows].first), raised |-> "none"]

\* ------------------------------------------------------------------ addresses

\* The program never looks at the number an address is (it only follows and
\* compares pointers for equality), so two heaps that differ by a renaming of
\* addresses behave alike. Every state keeps one representative: the blocks
\* renumbered in the order a traversal from the roots meets them.

Children(h, a) ==
  CASE h[a].kind = "LIST_STORAGE" -> <<h[a].shape, h[a].default_val, h[a].rows>>
    [] h[a].kind = "LIST" -> <<h[a].first>>
    [] h[a].kind = "NODE" -> <<h[a].val, h[a].next>>
    [] OTHER -> <<>>

InSeq(sq, a) == \E k \in 1..Len(sq) : sq[k] = a

RECURSIVE Traverse(_, _, _)
Traverse(h, todo, order) ==
  IF todo = <<>> THEN order
  ELSE LET a == Head(todo) IN
       IF a = NULL \/ InSeq(order, a) THEN Traverse(h, Tail(todo), order)
       ELSE Traverse(h, Children(h, a) \o Tail(todo), Append(order, a))

\* The blocks no root reaches (leaked), lowest address first.
RECURSIVE Ascending(_)
Ascending(set) ==
  IF set = {} THEN <<>>
  ELSE LET m == CHOOSE x \in set : \A y \in set : x <= y IN <<m>> \o Ascending(set \ {m})

VisitOrder(h, roots) ==
  LET reached == Traverse(h, roots, <<>>)
      leaked  == {a \in Addr : h[a].kind # "free" /\ ~InSeq(reached, a)}
  IN IF leaked = {} THEN reached ELSE Traverse(h, Ascending(leaked), reached)

Renamed(order, a) == IF a = NULL THEN NULL ELSE CHOOSE k \in 1..Len(order) : order[k] = a

RenamedBlock(order, b) ==
  CASE b.kind = "LIST_STORAGE" ->
         [b EXCEPT !.shape = Renamed(order, b.shape), !.default_val = Renamed(order, b.default_val),
                   !.rows = Renamed(order, b.rows)]
    [] b.kind = "LIST" -> [b EXCEPT !.first = Renamed(order, b.first)]
    [] b.kind = "NODE" -> [b EXCEPT !.val = Renamed(order, b.val), !.next = Renamed(order, b.next)]
    [] OTHER -> b

\* ------------------------------------------------------------------ state

VARIABLES
  heap,     \* address -> block
  S,        \* the storages in use: <<first, second>>, NULL where there is none
  hist,     \* per storage and coordinate: the value inserted and not removed since
  last,     \* the call that ran last, with its arguments
  held,     \* what the last remove returned: a value now the caller's to free, or NULL
  status,   \* "ok", or "aborted" once the process was killed
  dense     \* the caller's dense row-major buffer (empty where there is none)

vars == <<heap, S, hist, last, held, status, dense>>

\* The heap h and the caller's pointers (the storages ss, the held value hd),
\* renumbered.
Canon(h, ss, hd) ==
  LET order == VisitOrder(h, ss \o <<hd>>) IN
  [heap |-> [a \in Addr |-> IF a <= Len(order) THEN RenamedBlock(order, h[order[a]]) ELSE FreeBlock],
   S    |-> [k \in 1..Len(ss) |-> Renamed(order, ss[k])],
   held |-> Renamed(order, hd)]

\* The next state's heap and caller's pointers.
Store(h, ss, hd) ==
  \E st \in {Canon(h, ss, hd)} : heap' = st.heap /\ S' = st.S /\ held' = st.held

DType == "int32"

\* The call that ran last: its name ("insert_remove" for a remove that
\* follows an insert at the same coordinates at once), the storages it was
\* given (for a cast copy of the storage that the call before cast-copied
\* from S[k], that k too), an insert's coordinates, what it returned where
\* that is a bool (eq[i][j]: list_storage_eqeq(S[i], S[j])), the value a ref
\* returned a pointer to, the error it raised, and whether a remove passed
\* its alloca block to free.
NoCall ==
  [op |-> "none", i |-> 0, j |-> 0, k |-> 0, c |-> <<>>,
   eq |-> [i \in {1, 2} |-> [j \in {1, 2} |-> FALSE]], added |-> FALSE, pre |-> TRUE,
   err |-> "none", ret |-> -1, freed_stack |-> FALSE]

\* The caller's part of creating a storage: the shape and default buffers
\* are malloc'ed and filled, then handed to list_storage_create.
NewStorage(h, shape, d) ==
  LET sh == Alloc(h)
      h1 == [h EXCEPT ![sh] = [kind |-> "shape", dims |-> shape]]
      dv == Alloc(h1)
      h2 == [h1 EXCEPT ![dv] = Scalar(d)]
  IN list_storage_create(h2, DType, sh, Len(shape), dv)

EmptyHeap == [a \in Addr |-> FreeBlock]

NoHist(shape) == [c \in Coords(shape) |-> {}]

\* One storage of any shape of at most MaxCells cells, nothing stored yet.
Init ==
  \E shape \in AllShapes, d \in Defaults :
    /\ Prod(shape) <= MaxCells
    /\ LET ns == NewStorage(EmptyHeap, shape, d)
           st == Canon(ns.h, <<ns.s, NULL>>, NULL)
       IN heap = st.heap /\ S = st.S
    /\ hist = <<NoHist(shape), NoHist(shape)>>
    /\ last = NoCall
    /\ held = NULL
    /\ status = "ok"
    /\ dense = <<>>

CoordSet == DOMAIN hist[1]

\* The caller mallocs a scalar holding v and inserts it at c.
Insert(i, c, v) ==
  /\ status = "ok" /\ S[i] # NULL /\ held = NULL
  /\ Room(heap) >= 2 * heap[S[i]].rank
  /\ LET a  == Alloc(heap)
         h1 == [heap EXCEPT ![a] = Scalar(v)]
     IN \E in \in {list_storage_insert(h1, S[i], c, a)} : Store(in.h, S, NULL)
  /\ last' = [NoCall EXCEPT !.op = "insert", !.i = i, !.c = c]
  /\ hist' = [hist EXCEPT ![i][c] = {v}]
  /\ UNCHANGED <<status, dense>>

\* remove at c. Where free(stack) ran on the alloca block, the call either
\* returns as if nothing had been freed or the allocator kills the process.
Remove(i, c) ==
  /\ status = "ok" /\ S[i] # NULL /\ held = NULL
  /\ \E rm \in {list_storage_remove(heap, S[i], c)} :
        /\ Store(rm.h, S, rm.rm)
        /\ \E outcome \in (IF rm.freed_stack THEN {"returns", "abort"} ELSE {"returns"}) :
              status' = IF outcome = "abort" THEN "aborted" ELSE "ok"
        /\ last' = [NoCall EXCEPT !.i = i, !.freed_stack = rm.freed_stack,
                      !.op = IF last.op = "insert" /\ last.i = i /\ last.c = c
                             THEN "insert_remove" ELSE "remove"]
  /\ hist' = [hist EXCEPT ![i][c] = {}]
  /\ UNCHANGED dense

\* The caller frees the value a remove handed back.
CallerFree ==
  /\ status = "ok" /\ held # NULL
  /\ Store(Free(heap, held), S, NULL)
  /\ last' = [NoCall EXCEPT !.op = "free"]
  /\ UNCHANGED <<hist, status, dense>>

Next ==
  \/ \E c \in CoordSet, v \in Values : Insert(1, c, v)
  \/ \E c \in CoordSet : Remove(1, c)
  \/ CallerFree

Spec == Init /\ [][Next]_vars

\* ------------------------------------------------------------------ pairs

\* The caller compares the two storages with list_storage_eqeq, each with
\* each (both orders, and each with itself).
Eqeq ==
  /\ status = "ok" /\ S[1] # NULL /\ S[2] # NULL /\ last.op # "eqeq"
  /\ last' = [NoCall EXCEPT !.op = "eqeq", !.i = 1, !.j = 2,
                !.eq = [i \in {1, 2} |-> [j \in {1, 2} |-> list_storage_eqeq(heap, S[i], S[j])]]]
  /\ UNCHANGED <<heap, S, hist, held, status, dense>>

\* What the caller did to one cell before the comparison: nothing, an insert
\* of v, or an insert and a remove.
CellScripts ==
  {[ins |-> FALSE, rm |-> FALSE, v |-> 0], [ins |-> TRUE, rm |-> TRUE, v |-> 0]}
    \cup {[ins |-> TRUE, rm |-> FALSE, v |-> v] : v \in Values}

\* The storage s after the calls of script, cell by cell.
RECURSIVE Build(_, _, _, _)
Build(h, s, todo, script) ==
  IF todo = {} THEN h
  ELSE LET c  == CHOOSE x \in todo : TRUE
           a  == Alloc(h)
           in == list_storage_insert([h EXCEPT ![a] = Scalar(script[c].v)], s, c, a)
           rm == list_storage_remove(in.h, s, c)
           h1 == IF ~script[c].ins THEN h
                 ELSE IF script[c].rm THEN Free(rm.h, rm.rm)
                 ELSE in.h
       IN Build(h1, s, todo \ {c}, script)

ScriptHist(script) ==
  [c \in DOMAIN script |-> IF script[c].ins /\ ~script[c].rm THEN {script[c].v} ELSE {}]

\* An upper bound of the blocks one storage of this shape takes.
Footprint(shape) == 4 + 2 * Len(shape) * Prod(shape)

\* One storage of this shape and default, built on h by the script.
BuildOne(h, shape, d, script) ==
  LET ns == NewStorage(h, shape, d)
  IN [h |-> Build(ns.h, ns.s, Coords(shape), script), s |-> ns.s]

\* Two storages of one shape, each built by its own script. Values can be
\* renamed and the two storages are compared in both orders, so the left
\* default is 0 and the right one is either.
InitEq ==
  \E shape \in AllShapes, dr \in Defaults :
    /\ Prod(shape) <= MaxEqCells
    /\ 2 * Footprint(shape) + 2 <= MaxAddr
    /\ \E sl \in [Coords(shape) -> CellScripts] :
         \E left \in {BuildOne(EmptyHeap, shape, 0, sl)} :
           \E sr \in [Coords(shape) -> CellScripts] :
             \E right \in {BuildOne(left.h, shape, dr, sr)} :
               /\ \E st \in {Canon(right.h, <<left.s, right.s>>, NULL)} :
                     heap = st.heap /\ S = st.S
               /\ hist = <<ScriptHist(sl), ScriptHist(sr)>>
    /\ last = NoCall
    /\ held = NULL
    /\ status = "ok"
    /\ dense = <<>>

NextEq == Eqeq

SpecEq == InitEq /\ [][NextEq]_vars

\* The blocks that no pointer of the caller reaches.
Leaked(h, ss, hd) ==
  LET reached == Traverse(h, ss \o <<hd>>, <<>>)
  IN {a \in Addr : h[a].kind # "free" /\ ~InSeq(reached, a)}

\* list_storage_copy(S[i]) into the unused slot j.
Copy(i, j) ==
  /\ status = "ok" /\ S[i] # NULL /\ S[j] = NULL /\ held = NULL
  /\ Cardinality(Leaked(heap, S, held)) < MaxCopies
  /\ Room(heap) >= Footprint(ShapeOf(heap, S[i])) + 1
  /\ \E cp \in {list_storage_copy(heap, S[i])} : Store(cp.h, [S EXCEPT ![j] = cp.s], NULL)
  /\ last' = [NoCall EXCEPT !.op = "copy", !.i = i, !.j = j]
  /\ hist' = [hist EXCEPT ![j] = hist[i]]
  /\ UNCHANGED <<status, dense>>

\* list_storage_delete(S[i])
Delete(i) ==
  /\ status = "ok" /\ S[i] # NULL /\ held = NULL
  /\ Store(list_storage_delete(heap, S[i]), [S EXCEPT ![i] = NULL], NULL)
  /\ last' = [NoCall EXCEPT !.op = "delete", !.i = i]
  /\ hist' = [hist EXCEPT ![i] = [c \in CoordSet |-> {}]]
  /\ UNCHANGED <<status, dense>>

\* One storage of at most MaxCopyCells cells, nothing stored yet.
InitCopy ==
  \E shape \in AllShapes, d \in Defaults :
    /\ Prod(shape) <= MaxCopyCells
    /\ LET ns == NewStorage(EmptyHeap, shape, d)
       IN \E st \in {Canon(ns.h, <<ns.s, NULL>>, NULL)} : heap = st.heap /\ S = st.S
    /\ hist = <<NoHist(shape), NoHist(shape)>>
    /\ last = NoCall
    /\ held = NULL
    /\ status = "ok"
    /\ dense = <<>>

NextCopy ==
  \/ \E i \in {1, 2}, c \in CoordSet, v \in Values : Insert(i, c, v)
  \/ \E i \in {1, 2}, c \in CoordSet : Remove(i, c)
  \/ CallerFree
  \/ \E i \in {1, 2}, j \in {1, 2} : Copy(i, j)
  \/ \E i \in {1, 2} : Delete(i)

SpecCopy == InitCopy /\ [][NextCopy]_vars

\* ------------------------------------------------------------------ dense

\* The elements of the caller's dense buffers.
DenseValues == {0, 1, 2}

\* The row-major offset of coords in a buffer of this shape.
RECURSIVE Offset(_, _, _)
Offset(shape, coords, k) ==
  IF k > Len(shape) THEN 0
  ELSE coords[k] * Prod(SubSeq(shape, k + 1, Len(shape))) + Offset(shape, coords, k + 1)

\* An empty storage whose default is zero, and a dense buffer of its shape.
InitDense ==
  \E shape \in AllShapes :
    /\ Prod(shape) <= MaxDenseCells
    /\ dense \in [1..Prod(shape) -> DenseValues]
    /\ LET ns == NewStorage(EmptyHeap, shape, 0)
       IN \E st \in {Canon(ns.h, <<ns.s, NULL>>, NULL)} : heap = st.heap /\ S = st.S
    /\ hist = <<NoHist(shape), NoHist(shape)>>
    /\ last = NoCall
    /\ held = NULL
    /\ status = "ok"

\* The dense buffer converted into the empty rows list, from pos = 0; the
\* caller keeps the buffer or frees it afterwards.
DenseBuild(keep) ==
  /\ status = "ok" /\ last.op = "none" /\ S[1] # NULL /\ dense # <<>>
  /\ \E r \in {list_storage_cast_copy_contents_dense_template(
                  heap, heap[S[1]].rows, dense, heap[heap[S[1]].default_val].v, 0,
                  ShapeOf(heap, S[1]), heap[S[1]].rank, heap[S[1]].rank - 1, DType, DType)} :
        /\ Store(r.h, S, NULL)
        /\ last' = [NoCall EXCEPT !.op = "dense", !.i = 1, !.added = r.added, !.pre = r.pre]
  /\ dense' = IF keep THEN dense ELSE <<>>
  /\ UNCHANGED <<hist, status>>

DenseCopy == DenseBuild(TRUE)

DenseCopyFree == DenseBuild(FALSE)

NextDense == DenseCopy

SpecDense == InitDense /\ [][NextDense]_vars

\* ------------------------------------------------------------------ mixed

\* An empty storage whose default is zero, and a dense buffer of its shape.
InitMixed ==
  \E shape \in AllShapes :
    /\ Prod(shape) <= MaxMixedCells
    /\ dense \in [1..Prod(shape) -> DenseValues]
    /\ LET ns == NewStorage(EmptyHeap, shape, 0)
       IN \E st \in {Canon(ns.h, <<ns.s, NULL>>, NULL)} : heap = st.heap /\ S = st.S
    /\ hist = <<NoHist(shape), NoHist(shape)>>
    /\ last = NoCall
    /\ held = NULL
    /\ status = "ok"

\* The storage is built from the dense buffer (an all-zero buffer builds
\* nothing), then changed by insert and remove, copied and deleted; inserts
\* and removes run while one storage is in use (of a storage and its copy,
\* one is deleted first).
NextMixed ==
  \/ DenseCopyFree
  \/ \E i \in {1, 2}, c \in CoordSet, v \in Values :
        dense = <<>> /\ S[3 - i] = NULL /\ Insert(i, c, v)
  \/ \E i \in {1, 2}, c \in CoordSet : dense = <<>> /\ S[3 - i] = NULL /\ Remove(i, c)
  \/ CallerFree
  \/ \E i \in {1, 2}, j \in {1, 2} : dense = <<>> /\ Copy(i, j)
  \/ \E i \in {1, 2} : dense = <<>> /\ Delete(i)

SpecMixed == InitMixed /\ [][NextMixed]_vars

\* ------------------------------------------------------------------ cast

\* The defaults of a storage of this dtype: 300 does not fit an int8.
CastDefaults(dtype) == IF dtype = "int32" THEN Defaults \cup {300} ELSE Defaults

\* One storage of either dtype built by a script, and two unused slots.
InitCast ==
  \E shape \in AllShapes, dtype \in DTypes :
    /\ Prod(shape) <= MaxCastCells
    /\ \E d \in CastDefaults(dtype), script \in [Coords(shape) -> CellScripts] :
         /\ \E b \in {BuildOne(EmptyHeap, shape, d, script)} :
              \E st \in {Canon([b.h EXCEPT ![b.s].dtype = dtype], <<b.s, NULL, NULL>>, NULL)} :
                heap = st.heap /\ S = st.S
         /\ hist = <<ScriptHist(script), NoHist(shape), NoHist(shape)>>
    /\ last = NoCall
    /\ held = NULL
    /\ status = "ok"
    /\ dense = <<>>

\* list_storage_get(S[i], slice), the slice being the coordinates c.
Get(i, c) ==
  /\ status = "ok" /\ S[i] # NULL
  /\ \E r \in {list_storage_get(heap, S[i], c)} :
        /\ Store(r.h, S, held)
        /\ last' = [NoCall EXCEPT !.op = "get", !.i = i, !.err = r.raised]
  /\ UNCHANGED <<hist, status, dense>>

\* list_storage_cast_copy(S[i], new_dtype) into the first unused slot j.
CastCopy(i, j, new_dtype) ==
  /\ status = "ok" /\ S[i] # NULL /\ S[j] = NULL /\ held = NULL
  /\ \A m \in 1..(j - 1) : S[m] # NULL
  /\ Room(heap) >= Footprint(ShapeOf(heap, S[i])) + 1
  /\ \E r \in {list_storage_cast_copy(heap, S[i], new_dtype)} :
        /\ Store(r.h, IF r.raised = "none" THEN [S EXCEPT ![j] = r.s] ELSE S, NULL)
        /\ last' = [NoCall EXCEPT !.op = "cast_copy", !.i = i, !.j = j, !.err = r.raised,
                      !.k = IF last.op = "cast_copy" /\ last.err = "none" /\ last.j = i
                            THEN last.i ELSE 0]
        /\ hist' = IF r.raised # "none" THEN hist
                   ELSE [hist EXCEPT ![j] = [c \in CoordSet |->
                           {Cast(new_dtype, heap[S[i]].dtype, v) : v \in hist[i][c]}]]
  /\ UNCHANGED <<status, dense>>

NextCast ==
  \/ \E i \in 1..3, c \in CoordSet : Get(i, c)
  \/ \E i \in 1..3, j \in 1..3, d \in AllDTypes : CastCopy(i, j, d)

SpecCast == InitCast /\ [][NextCast]_vars

\* ------------------------------------------------------------------ reads

\* The caller looks c up with list_storage_ref.
Ref(i, c) ==
  /\ status = "ok" /\ S[i] # NULL /\ held = NULL
  /\ last' = [NoCall EXCEPT !.op = "ref", !.i = i, !.c = c,
                !.ret = heap[list_storage_ref(heap, S[i], c)].v]
  /\ UNCHANGED <<heap, S, hist, held, status, dense>>

\* The caller compares S[i] with S[j].
Compare(i, j) ==
  /\ status = "ok" /\ S[i] # NULL /\ S[j] # NULL /\ held = NULL
  /\ last' = [NoCall EXCEPT !.op = "eqeq", !.i = i, !.j = j,
                !.eq[i][j] = list_storage_eqeq(heap, S[i], S[j])]
  /\ UNCHANGED <<heap, S, hist, held, status, dense>>

\* Inserts, removes and the two read-only calls on one storage.
NextReads ==
  \/ Next
  \/ \E c \in CoordSet : Ref(1, c)
  \/ Compare(1, 1)

SpecReads == Init /\ [][NextReads]_vars

\* ------------------------------------------------------------------ views

\* The nodes of a list from n on, in list order.
RECURSIVE NodesFrom(_, _)
NodesFrom(h, n) == IF n = NULL THEN <<>> ELSE <<n>> \o NodesFrom(h, h[n].next)

Nodes(h, l) == NodesFrom(h, h[l].first)

\* The leaf node at coords, NULL where a level has no node for its key.
RECURSIVE leaf_walk(_, _, _, _)
leaf_walk(h, l, coords, k) ==
  LET n == list_find(h, l, coords[k]) IN
  IF n = NULL \/ k = Len(coords) THEN n ELSE leaf_walk(h, h[n].val, coords, k + 1)

LeafNode(h, s, coords) == leaf_walk(h, h[s].rows, coords, 1)

Stored(h, s, coords) == LeafNode(h, s, coords) # NULL

\* Every node of the lists depth levels above the leaf lists holds a
\* non-empty nested list.
RECURSIVE NoEmptyBelow(_, _, _)
NoEmptyBelow(h, l, depth) ==
  depth = 0 \/ \A k \in 1..Len(Nodes(h, l)) :
                  LET n == Nodes(h, l)[k] IN
                  h[h[n].val].first # NULL /\ NoEmptyBelow(h, h[n].val, depth - 1)

\* The scalar a pointer refers to (-1 where it refers to none).
Val(h, p) == IF p \in Addr /\ h[p].kind = "scalar" THEN h[p].v ELSE -1

\* What the matrix holds at coords: the stored value, or the default.
ValueAt(h, s, coords) ==
  LET n == LeafNode(h, s, coords)
  IN IF n = NULL THEN Val(h, h[s].default_val) ELSE Val(h, h[n].val)

SameContents(h, left, right) ==
  \A c \in Coords(ShapeOf(h, left)) : ValueAt(h, left, c) = ValueAt(h, right, c)

\* A list as keys and what they hold, addresses left out.
RECURSIVE ListView(_, _, _)
ListView(h, l, recursions) ==
  LET ns == Nodes(h, l)
  IN [k \in 1..Len(ns) |->
        [key |-> h[ns[k]].key,
         val |-> IF recursions = 0 THEN <<Val(h, h[ns[k]].val)>>
                 ELSE ListView(h, h[ns[k]].val, recursions - 1)]]

\* A storage, addresses left out.
StorageView(h, s) ==
  [rank |-> h[s].rank, dtype |-> h[s].dtype, shape |-> ShapeOf(h, s),
   default_val |-> Val(h, h[s].default_val), rows |-> ListView(h, h[s].rows, h[s].rank - 1)]

\* The blocks a storage consists of.
Reach(h, s) ==
  LET reached == Traverse(h, <<s>>, <<>>) IN {reached[k] : k \in 1..Len(reached)}

\* Every list from l down, recursions levels deep, has strictly increasing
\* keys.
RECURSIVE SortedBelow(_, _, _)
SortedBelow(h, l, recursions) ==
  LET ns == Nodes(h, l)
  IN /\ \A k \in 1..(Len(ns) - 1) : h[ns[k]].key < h[ns[k + 1]].key
     /\ recursions > 0 => \A k \in 1..Len(ns) : SortedBelow(h, h[ns[k]].val, recursions - 1)

\* ------------------------------------------------------------------ claims

\* C1: after any sequence of inserts and removes, ref at every coordinate
\* returns the value of the latest insert there that no remove followed, and
\* the storage's default_val where there is none.
C1_RefReturnsLatestInsert ==
  S[1] # NULL =>
    \A c \in CoordSet :
      LET p == list_storage_ref(heap, S[1], c) IN
      IF hist[1][c] = {} THEN p = heap[S[1]].default_val
      ELSE /\ p # heap[S[1]].default_val
           /\ heap[p].kind = "scalar"
           /\ hist[1][c] = {heap[p].v}

\* C1's case: a value was overwritten or kept at one coordinate while another
\* coordinate was inserted and then removed.
C1_Witness ==
  /\ last.op = "remove" /\ held # NULL /\ status = "ok"
  /\ \E c \in CoordSet : hist[1][c] # {} /\ hist[1][c] # {heap[heap[S[1]].default_val].v}

\* C2: in every state reachable by insert and remove, every intermediate
\* node's nested list is non-empty.
C2_NoEmptyIntermediateList ==
  S[1] # NULL => NoEmptyBelow(heap, heap[S[1]].rows, heap[S[1]].rank - 1)

\* C3: a remove at c that follows an insert of v at c at once returns (a
\* scalar holding) v, not NULL, and ref at c then returns default_val.
C3_InsertThenRemoveReturnsValue ==
  [][\A c \in CoordSet :
       (last.op = "insert" /\ last.i = 1 /\ last.c = c /\ Remove(1, c)) =>
         /\ status' = "ok"
         /\ held' # NULL /\ heap'[held'].kind = "scalar" /\ hist[1][c] = {heap'[held'].v}
         /\ list_storage_ref(heap', S'[1], c) = heap'[S'[1]].default_val]_vars

\* C3's case: the remove that followed an insert at once has handed a value
\* back, from a storage of rank above 1 that holds another value still.
C3_Witness ==
  /\ last.op = "insert_remove" /\ held # NULL /\ status = "ok"
  /\ heap[S[1]].rank > 1
  /\ \E c \in CoordSet : hist[1][c] # {}

\* C4: a remove at coordinates that hold no value returns NULL and leaves
\* the storage as it was.
C4_RemoveMissingIsNoOp ==
  [][\A c \in CoordSet :
       (Remove(1, c) /\ ~Stored(heap, S[1], c)) =>
         (status' = "ok" /\ held' = NULL /\ heap' = heap /\ S' = S)]_vars

C6_CopyEqualsOriginal ==
  last.op = "copy" =>
    LET a == S[last.i]
        b == S[last.j]
    IN /\ b # NULL /\ b # a
       /\ heap[b].rank = heap[a].rank /\ heap[b].dtype = heap[a].dtype
       /\ ShapeOf(heap, b) = ShapeOf(heap, a)
       /\ Val(heap, heap[b].default_val) = Val(heap, heap[a].default_val)
       /\ \A c \in CoordSet :
            /\ Stored(heap, b, c) = Stored(heap, a, c)
            /\ ValueAt(heap, b, c) = ValueAt(heap, a, c)
       /\ list_storage_eqeq(heap, a, b)

\* C6's case: a storage that holds a value other than its default was copied.
C6_Witness ==
  /\ last.op = "copy"
  /\ \E c \in CoordSet :
       /\ Stored(heap, S[last.j], c)
       /\ ValueAt(heap, S[last.j], c) # Val(heap, heap[S[last.j]].default_val)

\* A step that is no call on storage k.
NotOn(k) ==
  ~(last'.i = k /\ last'.op \in {"insert", "remove", "insert_remove", "delete"})
  /\ ~(last'.j = k /\ last'.op = "copy")

\* C7: a storage and its copy have no block in common, and an insert, remove
\* or delete on one of them leaves the other unchanged.
C7_CopySharesNothing ==
  /\ []((S[1] # NULL /\ S[2] # NULL) => Reach(heap, S[1]) \cap Reach(heap, S[2]) = {})
  /\ [][\A k \in {1, 2} :
          (S[k] # NULL /\ NotOn(k)) =>
            (S'[k] # NULL /\ StorageView(heap', S'[k]) = StorageView(heap, S[k]))]_vars

\* C7's case: beside a copy that still holds a value, the original was
\* deleted.
C7_Witness ==
  /\ last.op = "delete" /\ last.i = 1 /\ S[1] = NULL /\ S[2] # NULL
  /\ \E c \in CoordSet : Stored(heap, S[2], c)

\* C8: the tree the dense construction builds has a leaf node at c exactly
\* when the dense element at c's row-major offset is not zero, and the node
\* holds that element.
C8_DenseBuildsExactlyNonZero ==
  last.op = "dense" =>
    \A c \in CoordSet :
      LET x == dense[Offset(ShapeOf(heap, S[1]), c, 1) + 1] IN
      /\ Stored(heap, S[1], c) = (x # 0)
      /\ Stored(heap, S[1], c) => ValueAt(heap, S[1], c) = x

\* C9: the tree the dense construction builds has no empty intermediate list.
C9_DenseNoEmptyIntermediateList ==
  last.op = "dense" => NoEmptyBelow(heap, heap[S[1]].rows, heap[S[1]].rank - 1)

\* C9's case: a rank-2 buffer with an all-zero row and a row that is not.
C9_Witness ==
  /\ last.op = "dense" /\ heap[S[1]].rank = 2
  /\ heap[heap[S[1]].rows].first # NULL
  /\ \E r \in 0..(ShapeOf(heap, S[1])[1] - 1) :
       \A c \in CoordSet : c[1] = r => dense[Offset(ShapeOf(heap, S[1]), c, 1) + 1] = 0

\* C10: list_storage_eqeq is reflexive and symmetric.
C10_EqeqReflexiveSymmetric ==
  last.op = "eqeq" =>
    /\ last.eq[1][1] /\ last.eq[2][2]
    /\ last.eq[1][2] = last.eq[2][1]

\* C10's case: a populated storage and an empty one with another default,
\* compared in both orders.
C10_Witness ==
  /\ last.op = "eqeq"
  /\ heap[heap[S[1]].rows].first # NULL /\ heap[heap[S[2]].rows].first = NULL
  /\ Val(heap, heap[S[1]].default_val) # Val(heap, heap[S[2]].default_val)
  /\ \E c \in CoordSet : ~Stored(heap, S[1], c)

\* C11: a coordinate tuple has a node chain down to a leaf node exactly when
\* a value differing from the default was inserted there and not removed
\* since.
C11_ChainIffNonDefaultInserted ==
  S[1] # NULL =>
    \A c \in CoordSet :
      Stored(heap, S[1], c) = (\E v \in hist[1][c] : v # Val(heap, heap[S[1]].default_val))

\* C12: after any sequence of dense construction, insert, remove and copy,
\* every list at every nesting level has strictly increasing keys.
C12_KeysStrictlyIncreasing ==
  \A i \in {1, 2} : S[i] # NULL => SortedBelow(heap, heap[S[i]].rows, heap[S[i]].rank - 1)

\* C12's case: the copy of a storage whose root list holds two nodes, one
\* built from the dense buffer and one inserted.
C12_Witness ==
  /\ last.op = "copy" /\ S[last.j] # NULL
  /\ Len(Nodes(heap, heap[S[last.j]].rows)) >= 2
  /\ \E c \in CoordSet : hist[last.j][c] = {} /\ Stored(heap, S[last.j], c)
  /\ \E c \in CoordSet : hist[last.j][c] # {}

\* C13: list_storage_count_elements_r(S.rows, rank - 1) is the number of
\* coordinates that were inserted and not removed since.
C13_CountIsInsertedNotRemoved ==
  S[1] # NULL =>
    list_storage_count_elements_r(heap, heap[S[1]].rows, heap[S[1]].rank - 1)
      = Cardinality({c \in CoordSet : hist[1][c] # {}})

\* C13's case: rank 2, both diagonal cells of a 2 x 2 storage were inserted,
\* (0,0) was removed again and handed back: one stored element remains.
C13_Witness ==
  /\ last.op = "remove" /\ held # NULL /\ status = "ok"
  /\ ShapeOf(heap, S[1]) = <<2, 2>>
  /\ hist[1][<<0, 0>>] = {} /\ hist[1][<<1, 1>>] # {}
  /\ list_storage_count_elements_r(heap, heap[S[1]].rows, 1) = 1

\* C14: list_storage_get raises NotImpError for every storage and slice,
\* returns nothing and leaves the storage as it was.
C14_GetNotImplemented ==
  [][\A i \in 1..3, c \in CoordSet :
       Get(i, c) =>
         /\ last'.err = "NotImpError"
         /\ heap' = heap /\ S' = S /\ held' = held /\ status' = status]_vars

\* C14's case: get was called on a storage of rank above 1 that holds a
\* value.
C14_Witness ==
  /\ last.op = "get" /\ heap[S[last.i]].rank > 1
  /\ \E c \in CoordSet : Stored(heap, S[last.i], c)

Lossless(a, b) == a = b \/ (a = "int8" /\ b = "int32")

\* C16: the cast copy back to A of the cast copy to B of a storage of dtype
\* A, the pair (A, B) lossless, has that storage's default, stored
\* coordinates and stored values.
C16_CastRoundTrip ==
  (last.op = "cast_copy" /\ last.err = "none" /\ last.k # 0) =>
    LET a == S[last.k]
        b == S[last.i]
        r == S[last.j]
    IN (heap[r].dtype = heap[a].dtype /\ Lossless(heap[a].dtype, heap[b].dtype)) =>
         /\ Val(heap, heap[r].default_val) = Val(heap, heap[a].default_val)
         /\ \A c \in CoordSet :
              /\ Stored(heap, r, c) = Stored(heap, a, c)
              /\ ValueAt(heap, r, c) = ValueAt(heap, a, c)

\* C16's case: an int8 storage that holds a value beside its default 1 was
\* cast to int32 and back.
C16_Witness ==
  /\ last.op = "cast_copy" /\ last.err = "none" /\ last.k # 0
  /\ heap[S[last.k]].dtype = "int8" /\ heap[S[last.i]].dtype = "int32"
  /\ heap[S[last.j]].dtype = "int8"
  /\ Val(heap, heap[S[last.k]].default_val) = 1
  /\ \E c \in CoordSet : Stored(heap, S[last.j], c) /\ ValueAt(heap, S[last.j], c) = 0

\* C17: during the dense construction every call of list_insert_after is
\* given a prev that an earlier insertion of the same invocation set, that
\* is the last node of the list being built, and whose key is below the new
\* key; a first insertion goes through list_insert.
C17_InsertAfterPreconditionHolds ==
  last.op = "dense" => last.pre

\* C17's case: a 2 x 2 buffer without a zero, so that list_insert_after ran
\* at the leaf level and at the level above.
C17_Witness ==
  /\ last.op = "dense" /\ ShapeOf(heap, S[1]) = <<2, 2>>
  /\ \A k \in DOMAIN dense : dense[k] # 0
  /\ Len(Nodes(heap, heap[S[1]].rows)) = 2
  /\ \A c \in CoordSet : Stored(heap, S[1], c)

\* C18: for a rank-2 storage count_list_storage_nd_elements returns the
\* number of coordinates off the diagonal whose value (stored or default)
\* differs from the default.
C18_CountsNonDiagonalNonZero ==
  (S[1] # NULL /\ heap[S[1]].rank = 2) =>
    LET r == count_list_storage_nd_elements(heap, S[1])
    IN /\ r.raised = "none"
       /\ r.count = Cardinality({c \in CoordSet :
                       c[1] # c[2] /\ ValueAt(heap, S[1], c) # Val(heap, heap[S[1]].default_val)})

\* C19: an insert at c and a remove at c that returns a value leave ref at
\* every other coordinate, and the storage's default, shape, rank and dtype,
\* as they were; ref and eqeq change nothing at all.
C19_InsertRemoveFrame ==
  [][/\ (last'.op = "insert" \/ (last'.op \in {"remove", "insert_remove"} /\ held' # NULL)) =>
          /\ \A c \in CoordSet :
                (IF last'.op = "insert" THEN c # last'.c ELSE hist'[1][c] = hist[1][c]) =>
                   Val(heap', list_storage_ref(heap', S'[1], c))
                     = Val(heap, list_storage_ref(heap, S[1], c))
          /\ Val(heap', heap'[S'[1]].default_val) = Val(heap, heap[S[1]].default_val)
          /\ ShapeOf(heap', S'[1]) = ShapeOf(heap, S[1])
          /\ heap'[S'[1]].rank = heap[S[1]].rank
          /\ heap'[S'[1]].dtype = heap[S[1]].dtype
     /\ last'.op \in {"ref", "eqeq"} => heap' = heap /\ S' = S]_vars

\* An insert next to a stored sibling in the same row that holds the other
\* value.
C19_Witness ==
  /\ last.op = "insert" /\ heap[S[1]].rank = 2
  /\ \E c \in CoordSet :
        /\ c # last.c /\ c[1] = last.c[1] /\ Stored(heap, S[1], c)
        /\ ValueAt(heap, S[1], c) # ValueAt(heap, S[1], last.c)

\* No block that a live storage still reaches is free.
NoFreedBlockReachable ==
  \A i \in 1..Len(S) : S[i] # NULL => \A a \in Reach(heap, S[i]) : heap[a].kind # "free"

\* C20: create, insert, remove, copy and delete pass to free only live heap
\* blocks of their own: no call frees an alloca block (remove's traversal
\* stack, on any of its return paths), and no block that a live storage still
\* reaches is free.
C20_FreesOnlyOwnedHeapBlocks == ~last.freed_stack /\ NoFreedBlockReachable

====
